---------------------------- MODULE Spec2Model ----------------------------
(* Buffer pool manager, LRU-K replacer and page guards of                  *)
(* src/buffer/buffer_pool_manager.cpp, src/buffer/lru_k_replacer.cpp and    *)
(* src/storage/page/page_guard.cpp, as a state machine of client threads    *)
(* calling the pool and using the guards it returns.                        *)
EXTENDS Integers, Sequences, FiniteSets, TLC

(***************************************************************************)
(* Bounds of the model.                                                    *)
(***************************************************************************)
\* num_frames is a constructor argument: it is drawn from 0..MaxFrames.
MaxFrames == 2
\* NewPage is called at most MaxNewPages times: the page ids are
\* 0..MaxNewPages-1.
MaxNewPages == 2
\* Guard objects (variables) each thread owns.
NumSlots == 2
\* A page's bytes are one value of 0..MaxData; 0 is the zero-filled page.
MaxData == 1
\* k_dist, the constructor argument handed to the replacer.
KDist == 2

AllFrames == 0 .. (MaxFrames - 1)
Pages     == 0 .. (MaxNewPages - 1)
\* Two client threads: enough for a call to wait behind another thread's
\* latch or frame lock.
Threads   == {1, 2}
Slots     == 1 .. NumSlots
Data      == 0 .. MaxData

\* Owner of a std::mutex nobody has locked.
NoThread == 0
\* std::nullopt of an optional frame id; the end() of the page table.
NoFrame  == -1
\* page_id_ of a frame that has held no page yet, and of an invalid guard.
NoPage   == -1

VARIABLES
    num_frames,     \* BufferPoolManager::num_frames_
    next_page_id,   \* BufferPoolManager::next_page_id_
    bpm_latch,      \* owner of *bpm_latch_ (a std::mutex), NoThread when free
    page_table,     \* page_table_: page id -> frame id, NoFrame when absent
    free_frames,    \* free_frames_: list of frame ids, front first
    frames,         \* frames_: the FrameHeaders
    replacer,       \* *replacer_: the LRUKReplacer
    disk,           \* the backing file: page id -> bytes
    guards,         \* guards[t][s]: the page guard object s of thread t
    pc,             \* where each thread is
    arg,            \* the call each thread is in: its arguments and locals, and
                    \* io, the requests it handed to DiskScheduler::Schedule
    ret,            \* what each thread's last pool call returned
    last_written,   \* per page, the bytes last stored through a WritePageGuard
    aborted         \* the process was terminated

vars == <<num_frames, next_page_id, bpm_latch, page_table, free_frames, frames,
          replacer, disk, guards, pc, arg, ret, last_written, aborted>>

poolvars == <<num_frames, next_page_id, page_table, free_frames, frames,
              replacer, disk>>

Frames == 0 .. (num_frames - 1)

(***************************************************************************)
(* LRUKReplacer.  A node is absent from node_store_ iff its history is     *)
(* empty; history_ has the most recent timestamp at the front.  The lists  *)
(* new_frames_ and cache_frames_ are sequences, front first; a locator is  *)
(* the position of the frame in its list.                                  *)
(***************************************************************************)
NoNode == [hist |-> <<>>, ev |-> FALSE]

ReplacerInit ==
    [store  |-> [f \in AllFrames |-> NoNode],
     newl   |-> <<>>,
     cachel |-> <<>>,
     size   |-> 0,
     ts     |-> 0]

Tracked(R, f) == R.store[f].hist # <<>>

HistBack(R, f) == R.store[f].hist[Len(R.store[f].hist)]

ListErase(s, f) == SelectSeq(s, LAMBDA x : x # f)

ListInsert(s, i, f) == SubSeq(s, 1, i - 1) \o <<f>> \o SubSeq(s, i, Len(s))

SetMax(S) == CHOOSE x \in S : \A y \in S : y <= x
SetMin(S) == CHOOSE x \in S : \A y \in S : x <= y

\* The scan run from the front of the list instead.
EvictScanFront(R, s) ==
    LET I == {i \in 1 .. Len(s) : R.store[s[i]].ev}
    IN  IF I = {} THEN 0 ELSE SetMin(I)

\* The scan of Evict over one list, back to front: the position of the
\* first evictable frame met, 0 when there is none.
EvictScan(R, s) ==
    LET I == {i \in 1 .. Len(s) : R.store[s[i]].ev}
    IN  IF I = {} THEN 0 ELSE SetMax(I)

\* Evict taking the frame off its list but leaving its node in node_store_.
EvictKeepsNode(R) ==
    LET n == EvictScan(R, R.newl)
        c == EvictScan(R, R.cachel)
    IN  IF n # 0
        THEN <<[R EXCEPT !.store[R.newl[n]].ev = FALSE,
                         !.newl = ListErase(R.newl, R.newl[n]),
                         !.size = R.size - 1], R.newl[n]>>
        ELSE IF c # 0
        THEN <<[R EXCEPT !.store[R.cachel[c]].ev = FALSE,
                         !.cachel = ListErase(R.cachel, R.cachel[c]),
                         !.size = R.size - 1], R.cachel[c]>>
        ELSE <<R, NoFrame>>

\* Evict: <<replacer afterwards, frame returned or NoFrame>>.
Evict(R) ==
    LET n == EvictScan(R, R.newl)
        c == EvictScan(R, R.cachel)
    IN  IF n # 0
        THEN <<[R EXCEPT !.store[R.newl[n]] = NoNode,
                         !.newl = ListErase(R.newl, R.newl[n]),
                         !.size = R.size - 1], R.newl[n]>>
        ELSE IF c # 0
        THEN <<[R EXCEPT !.store[R.cachel[c]] = NoNode,
                         !.cachel = ListErase(R.cachel, R.cachel[c]),
                         !.size = R.size - 1], R.cachel[c]>>
        ELSE <<R, NoFrame>>

\* RecordAccess throws when frame_id > replacer_size_.
RecordAccessThrows(n, f) == f > n

\* Case (3): where the frame that reached k accesses enters cache_frames_.
CacheInsertPos(R, kts) ==
    LET I == {i \in 1 .. Len(R.cachel) : kts > HistBack(R, R.cachel[i])}
    IN  IF I = {} THEN 1 ELSE SetMin(I)

\* Case (4): the walk from the erased position towards the front.
RECURSIVE CacheWalk(_, _, _, _)
CacheWalk(R, L, j, kts) ==
    IF j = 1 THEN 1
    ELSE IF kts < HistBack(R, L[j - 1]) THEN j
    ELSE CacheWalk(R, L, j - 1, kts)

ErasedPos(s, f) == CHOOSE i \in 1 .. Len(s) : s[i] = f

\* current_timestamp_ left as it is.
SameTimestamp(ts) == ts

\* current_timestamp_++ at the end of RecordAccess.
NextTimestamp(ts) == ts + 1

\* RecordAccess when it does not throw.
RecordAccess(R, k, f) ==
    LET h  == R.store[f].hist
        h1 == <<R.ts>> \o h
    IN  IF h = <<>>
        THEN [R EXCEPT !.store[f] = [hist |-> <<R.ts>>, ev |-> FALSE],
                       !.newl = <<f>> \o R.newl,
                       !.ts = NextTimestamp(R.ts)]
        ELSE IF Len(h) < k - 1
        THEN [R EXCEPT !.store[f].hist = h1, !.ts = NextTimestamp(R.ts)]
        ELSE IF Len(h) = k - 1
        THEN LET R1 == [R EXCEPT !.store[f].hist = h1,
                                 !.newl = ListErase(R.newl, f)]
                 p  == CacheInsertPos(R1, h1[Len(h1)])
             IN  [R1 EXCEPT !.cachel = ListInsert(R1.cachel, p, f),
                            !.ts = NextTimestamp(R.ts)]
        ELSE IF Len(h) = k
        THEN LET h2 == SubSeq(h1, 1, k)
                 R1 == [R EXCEPT !.store[f].hist = h2]
                 e  == ErasedPos(R.cachel, f)
                 L  == ListErase(R.cachel, f)
                 p  == CacheWalk(R1, L, e, h2[Len(h2)])
             IN  [R1 EXCEPT !.cachel = ListInsert(L, p, f),
                            !.ts = NextTimestamp(R.ts)]
        ELSE [R EXCEPT !.ts = NextTimestamp(R.ts)]

\* SetEvictable storing the opposite of the flag it is given.
SetEvictableInverted(R, f, b) ==
    IF ~Tracked(R, f) THEN R ELSE [R EXCEPT !.store[f].ev = ~b]

SetEvictable(R, f, b) ==
    IF ~Tracked(R, f) THEN R
    ELSE [R EXCEPT !.store[f].ev = b,
                   !.size = IF R.store[f].ev /\ ~b THEN R.size - 1
                            ELSE IF ~R.store[f].ev /\ b THEN R.size + 1
                            ELSE R.size]

\* Remove throws on a tracked frame that is not evictable.
RemoveThrows(R, f) == Tracked(R, f) /\ ~R.store[f].ev

Remove(R, k, f) ==
    IF ~Tracked(R, f) \/ RemoveThrows(R, f) THEN R
    ELSE IF Len(R.store[f].hist) < k
    THEN [R EXCEPT !.newl = ListErase(R.newl, f),
                   !.size = R.size - 1, !.store[f] = NoNode]
    ELSE [R EXCEPT !.cachel = ListErase(R.cachel, f),
                   !.size = R.size - 1, !.store[f] = NoNode]


(***************************************************************************)
(* FrameHeader and the state after BufferPoolManager's constructor.        *)
(***************************************************************************)
\* pin_count_ is a std::atomic<size_t>: decrementing 0 wraps to the largest
\* value, for which the largest 32-bit integer stands here.
SizeMax == 2147483646 + 1

FrameInit ==
    [page_id |-> NoPage, pin_count |-> 0, is_dirty |-> FALSE, data |-> 0,
     readers |-> 0, writer |-> FALSE]

\* FrameHeader::Reset: the bytes are zeroed, pin_count_ stored 0, is_dirty_
\* cleared; page_id_ and the rwlatch_ are left as they are.
Reset(fr) == [fr EXCEPT !.data = 0, !.pin_count = 0, !.is_dirty = FALSE]

\* A guard object: is_valid_, which class it is, page_id_ and frame_ (NoFrame
\* for the null pointer of a default-constructed, dropped or moved-from guard).
NoGuard == [valid |-> FALSE, kind |-> "r", page |-> NoPage, frame |-> NoFrame]

NoArg == [op |-> "none", page |-> NoPage, kind |-> "r", frame |-> NoFrame,
          dst |-> 0, src |-> 0, io |-> 0, read_ok |-> TRUE]

NoRet == [op |-> "none", val |-> 0, io |-> 0]

RECURSIVE IotaSeq(_, _)
IotaSeq(i, n) == IF i >= n THEN <<>> ELSE <<i>> \o IotaSeq(i + 1, n)

Init ==
    /\ num_frames \in 0 .. MaxFrames
    /\ next_page_id = 0
    /\ bpm_latch = NoThread
    /\ page_table = [p \in Pages |-> NoFrame]
    /\ free_frames = IotaSeq(0, num_frames)
    /\ frames = [f \in AllFrames |-> FrameInit]
    /\ replacer = ReplacerInit
    /\ disk = [p \in Pages |-> 0]
    /\ guards = [t \in Threads |-> [s \in Slots |-> NoGuard]]
    /\ pc = [t \in Threads |-> "idle"]
    /\ arg = [t \in Threads |-> NoArg]
    /\ ret = [t \in Threads |-> NoRet]
    /\ last_written = [p \in Pages |-> 0]
    /\ aborted = FALSE

(***************************************************************************)
(* The pool latch.  std::mutex::lock blocks while another thread owns the  *)
(* mutex; a thread that locks a mutex it owns itself blocks for ever.      *)
(***************************************************************************)
CanLockAlways(l) == TRUE

CanLock(l) == l = NoThread

\* The owner of the pool latch when CheckedReadPage / CheckedWritePage
\* returns std::nullopt: bpm_latch_->unlock() was called.
FetchFailLatchKept(t) == t

FetchFailLatch(t) == NoThread

\* The owner of the pool latch when CheckedReadPage / CheckedWritePage
\* returns a guard: no exit on that path unlocks what line 227 / 322 locked.
FetchSuccessLatch(t) == t

LockedOps == {"new_page", "delete_page", "get_pin_count", "flush_all_pages",
              "fetch"}

\* A client thread calls a pool operation that starts by locking the latch.
\* Clients fetch pages that NewPage has allocated, into a guard variable
\* that holds no guard.
Call(t, op, p, k) ==
    /\ pc[t] = "idle"
    /\ op \in LockedOps
    /\ op = "new_page" => next_page_id < MaxNewPages
    /\ op = "fetch" => p < next_page_id /\ \E s \in Slots : ~guards[t][s].valid
    /\ pc' = [pc EXCEPT ![t] = "lock"]
    /\ arg' = [arg EXCEPT ![t] = [NoArg EXCEPT !.op = op, !.page = p, !.kind = k]]
    /\ UNCHANGED <<poolvars, bpm_latch, guards, ret, last_written, aborted>>

\* bpm_latch_->lock() / std::scoped_lock lk(*bpm_latch_).
Lock(t) ==
    /\ pc[t] = "lock"
    /\ CanLock(bpm_latch)
    /\ bpm_latch' = t
    /\ pc' = [pc EXCEPT ![t] = arg[t].op]
    /\ UNCHANGED <<poolvars, guards, arg, ret, last_written, aborted>>

\* The process is terminated (an uncaught exception, a null pointer
\* dereferenced): no thread takes another step, and what the threads were
\* doing, their guard objects included, is gone.
Abort ==
    /\ aborted' = TRUE
    /\ guards' = [u \in Threads |-> [s \in Slots |-> NoGuard]]
    /\ pc' = [u \in Threads |-> "aborted"]
    /\ arg' = [u \in Threads |-> NoArg]
    /\ ret' = [u \in Threads |-> NoRet]

\* A pool call returns val to its caller, having scheduled io disk requests.
Return(t, op, val, io) ==
    /\ pc' = [pc EXCEPT ![t] = "done"]
    /\ ret' = [ret EXCEPT ![t] = [op |-> op, val |-> val, io |-> io]]

\* The caller has looked at what its call returned and goes on.
Resume(t) ==
    /\ pc[t] = "done"
    /\ pc' = [pc EXCEPT ![t] = "idle"]
    /\ ret' = [ret EXCEPT ![t] = NoRet]
    /\ arg' = [arg EXCEPT ![t] = NoArg]
    /\ UNCHANGED <<poolvars, bpm_latch, guards, last_written, aborted>>

\* ++next_page_id_ leaving the counter where it was.
NextIdStuck(n) == n

\* ++next_page_id_
NextId(n) == n + 1

NewPage(t) ==
    /\ pc[t] = "new_page"
    /\ next_page_id' = NextId(next_page_id)
    /\ bpm_latch' = NoThread
    /\ Return(t, "new_page", next_page_id' - 1, 0)
    /\ UNCHANGED <<num_frames, page_table, free_frames, frames, replacer, disk,
                   guards, arg, last_written, aborted>>

GetPinCount(t) ==
    /\ pc[t] = "get_pin_count"
    /\ bpm_latch' = NoThread
    /\ Return(t, "get_pin_count",
              IF page_table[arg[t].page] = NoFrame THEN "none"
              ELSE frames[page_table[arg[t].page]].pin_count, 0)
    /\ UNCHANGED <<poolvars, guards, arg, last_written, aborted>>

\* DeletePage's body under the latch.  A throw of Remove leaves what was
\* done before it and is returned to the caller as "error".
DeleteRefuses(pin) == pin > 0

DeletePage(t) ==
    LET p == arg[t].page
        f == page_table[p]
    IN  /\ pc[t] = "delete_page"
        /\ bpm_latch' = NoThread
        /\ IF f = NoFrame
           THEN /\ Return(t, "delete_page", TRUE, 0)
                /\ UNCHANGED <<page_table, free_frames, frames, replacer>>
           ELSE IF DeleteRefuses(frames[f].pin_count)
           THEN /\ Return(t, "delete_page", FALSE, 0)
                /\ UNCHANGED <<page_table, free_frames, frames, replacer>>
           ELSE /\ frames' = [frames EXCEPT ![f] = Reset(frames[f])]
                /\ page_table' = [page_table EXCEPT ![p] = NoFrame]
                /\ free_frames' = Append(free_frames, f)
                /\ replacer' = Remove(replacer, KDist, f)
                /\ Return(t, "delete_page",
                          IF RemoveThrows(replacer, f) THEN "error" ELSE TRUE, 0)
        /\ UNCHANGED <<num_frames, next_page_id, disk, guards, arg, last_written, aborted>>


(***************************************************************************)
(* FlushPage and FlushAllPages.                                            *)
(***************************************************************************)
\* FlushPage schedules a write: the page is in the page table and its frame
\* is dirty.
FlushWrites(pt, fr, p) ==
    /\ p \in Pages
    /\ pt[p] # NoFrame
    /\ fr[pt[p]].is_dirty

\* The disk after FlushPage(p); is_dirty_ is left as it is.
FlushPage(pt, fr, dk, p) ==
    IF FlushWrites(pt, fr, p) THEN [dk EXCEPT ![p] = fr[pt[p]].data] ELSE dk

\* FlushPage called by a client: it locks neither the pool latch nor the
\* frame's rwlatch_.  Lines 448-455: the lookup, the test of is_dirty_ and
\* the write, which has reached the disk when future.get() returns.
FlushPageCall(t, p) ==
    /\ pc[t] = "idle"
    /\ disk' = FlushPage(page_table, frames, disk, p)
    /\ pc' = [pc EXCEPT ![t] = "fl_ret"]
    /\ arg' = [arg EXCEPT ![t] =
                  [NoArg EXCEPT !.op = "flush_page", !.page = p,
                                !.frame = page_table[p],
                                !.io = IF FlushWrites(page_table, frames, p)
                                       THEN 1 ELSE 0]]
    /\ UNCHANGED <<num_frames, next_page_id, bpm_latch, page_table, free_frames,
                   frames, replacer, guards, ret, last_written, aborted>>

\* Lines 449 and 457: FlushPage returns to its caller.
FlushPageReturn(t) ==
    /\ pc[t] = "fl_ret"
    /\ Return(t, "flush_page", arg[t].frame # NoFrame, arg[t].io)
    /\ UNCHANGED <<poolvars, bpm_latch, guards, arg, last_written, aborted>>

\* The loop of FlushAllPages over frames_, from frame i on.
RECURSIVE FlushAllFrom(_, _, _, _)
FlushAllFrom(i, n, fr, dk) ==
    IF i >= n THEN dk
    ELSE FlushAllFrom(i + 1, n, fr,
                      IF fr[i].is_dirty
                      THEN [dk EXCEPT ![fr[i].page_id] = fr[i].data]
                      ELSE dk)

FlushAllPages(t) ==
    /\ pc[t] = "flush_all_pages"
    /\ disk' = FlushAllFrom(0, num_frames, frames, disk)
    /\ bpm_latch' = NoThread
    /\ Return(t, "flush_all_pages", TRUE,
              Cardinality({f \in Frames : frames[f].is_dirty}))
    /\ UNCHANGED <<num_frames, next_page_id, page_table, free_frames, frames,
                   replacer, guards, arg, last_written, aborted>>

(***************************************************************************)
(* CheckedReadPage (kind "r") and CheckedWritePage (kind "w"), step by     *)
(* step: what the pool latch does not order against a guard's Drop (the    *)
(* pin count, the replacer, the frame's rwlatch_) is a step of its own.    *)
(***************************************************************************)
PinIncForgotten(n) == n

PinInc(n) == n + 1

PinDec(n) == IF n = 0 THEN SizeMax ELSE n - 1

\* free_frames_.pop_front()
FreePopKeeps(fl) == fl

FreePop(fl) == Tail(fl)

\* Lines 233-263 / 325-353: the frame for the page, and the page read
\* into it on a miss; on std::nullopt the call returns here.
FetchLookup(t) ==
    LET p  == arg[t].page
        ev == Evict(replacer)
        v  == ev[2]
        vp == frames[v].page_id
    IN  /\ pc[t] = "fetch"
        /\ IF page_table[p] # NoFrame
           THEN /\ arg' = [arg EXCEPT ![t].frame = page_table[p]]
                /\ pc' = [pc EXCEPT ![t] = "f_pin"]
                /\ UNCHANGED <<page_table, free_frames, frames, replacer, disk,
                               bpm_latch, ret>>
           ELSE IF free_frames # <<>>
           THEN /\ page_table' = [page_table EXCEPT ![p] = Head(free_frames)]
                /\ free_frames' = FreePop(free_frames)
                /\ frames' = [frames EXCEPT ![Head(free_frames)].data = disk[p]]
                /\ arg' = [arg EXCEPT ![t].frame = Head(free_frames),
                                      ![t].io = 1]
                /\ pc' = [pc EXCEPT ![t] = "f_pin"]
                /\ UNCHANGED <<replacer, disk, bpm_latch, ret>>
           ELSE IF v = NoFrame
           THEN /\ bpm_latch' = FetchFailLatch(t)
                /\ Return(t, "fetch", "none", 0)
                /\ UNCHANGED <<page_table, free_frames, frames, replacer, disk,
                               arg>>
           ELSE /\ replacer' = ev[1]
                /\ disk' = FlushPage(page_table, frames, disk, vp)
                /\ page_table' = [q \in Pages |->
                                    IF q = p THEN v
                                    ELSE IF q = vp THEN NoFrame
                                    ELSE page_table[q]]
                /\ frames' = [frames EXCEPT ![v].data = disk'[p]]
                /\ arg' = [arg EXCEPT ![t].frame = v,
                              ![t].io = IF FlushWrites(page_table, frames, vp)
                                        THEN 2 ELSE 1]
                /\ pc' = [pc EXCEPT ![t] = "f_pin"]
                /\ UNCHANGED <<free_frames, bpm_latch, ret>>
        /\ UNCHANGED <<num_frames, next_page_id, guards, last_written, aborted>>

\* frames_[frame_id]->pin_count_++
FetchPin(t) ==
    /\ pc[t] = "f_pin"
    /\ frames' = [frames EXCEPT ![arg[t].frame].pin_count = PinInc(@)]
    /\ pc' = [pc EXCEPT ![t] = "f_rec"]
    /\ UNCHANGED <<num_frames, next_page_id, bpm_latch, page_table, free_frames,
                   replacer, disk, guards, arg, ret, last_written, aborted>>

\* frames_[frame_id]->page_id_ = page_id; replacer_->RecordAccess(frame_id)
FetchRecord(t) ==
    LET f == arg[t].frame
    IN  /\ pc[t] = "f_rec"
        /\ frames' = [frames EXCEPT ![f].page_id = arg[t].page]
        /\ IF RecordAccessThrows(num_frames, f)
           THEN /\ Abort
                /\ UNCHANGED replacer
           ELSE /\ replacer' = RecordAccess(replacer, KDist, f)
                /\ pc' = [pc EXCEPT ![t] = "f_sev"]
                /\ UNCHANGED <<aborted, arg, ret, guards>>
        /\ UNCHANGED <<num_frames, next_page_id, bpm_latch, page_table,
                       free_frames, disk, last_written>>

\* replacer_->SetEvictable(frame_id, false)
FetchSetEvictable(t) ==
    /\ pc[t] = "f_sev"
    /\ replacer' = SetEvictable(replacer, arg[t].frame, FALSE)
    /\ pc' = [pc EXCEPT ![t] = IF arg[t].kind = "w" THEN "f_dirty" ELSE "f_rwlock"]
    /\ UNCHANGED <<num_frames, next_page_id, bpm_latch, page_table, free_frames,
                   frames, disk, guards, arg, ret, last_written, aborted>>

\* WritePageGuard's constructor: frame_->is_dirty_ = true, before the lock.
GuardCtorDirty(t) ==
    /\ pc[t] = "f_dirty"
    /\ frames' = [frames EXCEPT ![arg[t].frame].is_dirty = TRUE]
    /\ pc' = [pc EXCEPT ![t] = "f_rwlock"]
    /\ UNCHANGED <<num_frames, next_page_id, bpm_latch, page_table, free_frames,
                   replacer, disk, guards, arg, ret, last_written, aborted>>

\* rwlatch_.lock_shared() / rwlatch_.lock() can be taken.
RwCanLock(fr, k) == IF k = "r" THEN ~fr.writer ELSE ~fr.writer /\ fr.readers = 0

\* A lock that also sets is_dirty_, whichever guard takes it.
RwLockMarksDirty(fr, k) ==
    IF k = "r" THEN [fr EXCEPT !.readers = @ + 1, !.is_dirty = TRUE]
    ELSE [fr EXCEPT !.writer = TRUE, !.is_dirty = TRUE]

RwLock(fr, k) ==
    IF k = "r" THEN [fr EXCEPT !.readers = @ + 1] ELSE [fr EXCEPT !.writer = TRUE]

\* An unlock that also clears is_dirty_.
RwUnlockClearsDirty(fr, k) ==
    IF k = "r" THEN [fr EXCEPT !.readers = @ - 1, !.is_dirty = FALSE]
    ELSE [fr EXCEPT !.writer = FALSE, !.is_dirty = FALSE]

RwUnlock(fr, k) ==
    IF k = "r" THEN [fr EXCEPT !.readers = @ - 1] ELSE [fr EXCEPT !.writer = FALSE]

\* The guard constructor's frame_->rwlatch_.lock_shared() / lock(): the
\* temporary guard is valid from here on.
GuardCtorLock(t) ==
    /\ pc[t] = "f_rwlock"
    /\ RwCanLock(frames[arg[t].frame], arg[t].kind)
    /\ frames' = [frames EXCEPT ![arg[t].frame] = RwLock(@, arg[t].kind)]
    /\ pc' = [pc EXCEPT ![t] = "f_ret"]
    /\ UNCHANGED <<num_frames, next_page_id, bpm_latch, page_table, free_frames,
                   replacer, disk, guards, arg, ret, last_written, aborted>>

\* return: the temporary is moved into the std::optional the caller gets
\* (the move constructor ends with SetEvictable(frame, false)), here into
\* an empty guard variable s of the caller.
FetchReturn(t, s) ==
    /\ pc[t] = "f_ret"
    /\ ~guards[t][s].valid
    /\ replacer' = SetEvictable(replacer, arg[t].frame, FALSE)
    /\ guards' = [guards EXCEPT ![t][s] =
                     [valid |-> TRUE, kind |-> arg[t].kind,
                      page |-> arg[t].page, frame |-> arg[t].frame]]
    /\ bpm_latch' = FetchSuccessLatch(t)
    /\ Return(t, "fetch", "guard", arg[t].io)
    /\ UNCHANGED <<num_frames, next_page_id, page_table, free_frames, frames,
                   disk, arg, last_written, aborted>>


(***************************************************************************)
(* ReadPageGuard / WritePageGuard: Drop, the move constructor and move     *)
(* assignment, and a client's write through GetDataMut.                    *)
(***************************************************************************)
\* Drop() going on whatever is_valid_ says.
DropNeverReturnsEarly(g) == FALSE

\* if (!is_valid_) { return; }
DropReturnsEarly(g) == ~g.valid

\* Drop() of guard s is called (by the client, or by the guard's destructor).
\* On a guard that is not valid it returns at once; past that test it
\* dereferences frame_, which is null in a guard that holds no frame.
DropBegin(t, s) ==
    /\ pc[t] = "idle"
    /\ IF DropReturnsEarly(guards[t][s])
       THEN /\ Return(t, "drop", FALSE, 0)
            /\ UNCHANGED <<guards, arg, aborted>>
       ELSE IF guards[t][s].frame = NoFrame
       THEN Abort
       ELSE /\ pc' = [pc EXCEPT ![t] = "d_dec"]
            /\ arg' = [arg EXCEPT ![t] = [NoArg EXCEPT !.op = "drop", !.dst = s]]
            /\ UNCHANGED <<guards, ret, aborted>>
    /\ UNCHANGED <<poolvars, bpm_latch, last_written>>

\* frame_->pin_count_--
DropDec(t) ==
    LET g == guards[t][arg[t].dst]
    IN  /\ pc[t] = "d_dec"
        /\ frames' = [frames EXCEPT ![g.frame].pin_count = PinDec(@)]
        /\ pc' = [pc EXCEPT ![t] = "d_load"]
        /\ UNCHANGED <<num_frames, next_page_id, bpm_latch, page_table,
                       free_frames, replacer, disk, guards, arg, ret, last_written, aborted>>

\* A Drop() that never marks the frame evictable.
DropNeverMarks(pin) == FALSE

\* if (frame_->pin_count_.load() == 0)
DropMarksEvictable(pin) == pin = 0

DropLoad(t) ==
    LET g == guards[t][arg[t].dst]
    IN  /\ pc[t] = "d_load"
        /\ pc' = [pc EXCEPT ![t] = IF DropMarksEvictable(frames[g.frame].pin_count)
                                   THEN "d_sev" ELSE "d_unlock"]
        /\ UNCHANGED <<poolvars, bpm_latch, guards, arg, ret, last_written, aborted>>

\* replacer_->SetEvictable(frame_->frame_id_, true)
DropSetEvictable(t) ==
    LET g == guards[t][arg[t].dst]
    IN  /\ pc[t] = "d_sev"
        /\ replacer' = SetEvictable(replacer, g.frame, TRUE)
        /\ pc' = [pc EXCEPT ![t] = "d_unlock"]
        /\ UNCHANGED <<num_frames, next_page_id, bpm_latch, page_table,
                       free_frames, frames, disk, guards, arg, ret, last_written, aborted>>

\* rwlatch_.unlock_shared() / unlock(); is_valid_ = false; frame_ = nullptr.
\* Drop was called by the client, or by a move whose destination was valid.
DropUnlock(t) ==
    LET g == guards[t][arg[t].dst]
    IN  /\ pc[t] = "d_unlock"
        /\ frames' = [frames EXCEPT ![g.frame] = RwUnlock(@, g.kind)]
        /\ guards' = [guards EXCEPT ![t][arg[t].dst] = NoGuard]
        /\ IF arg[t].op = "move"
           THEN /\ pc' = [pc EXCEPT ![t] = "m_xfer"]
                /\ UNCHANGED arg
           ELSE /\ pc' = [pc EXCEPT ![t] = "idle"]
                /\ arg' = [arg EXCEPT ![t] = NoArg]
        /\ UNCHANGED <<num_frames, next_page_id, bpm_latch, page_table,
                       free_frames, replacer, disk, ret, last_written, aborted>>

\* Lines 76-82 / 109-115 / 227-233 / 258-264 of a move of guard s into
\* guard d: the fields are taken over, that.is_valid_ = false, and then
\* replacer_->SetEvictable(frame_->frame_id_, false): with a source that
\* holds no frame both pointers are null and the process is terminated.
MovedFromStaysValid(g) == g

\* that.is_valid_ = false, that.frame_ moved from.
MovedFrom(g) == NoGuard

MoveFields(t, d, s) ==
    LET g == guards[t][s]
    IN  /\ IF g.frame = NoFrame
           THEN /\ Abort
                /\ UNCHANGED replacer
           ELSE /\ guards' = [guards EXCEPT ![t][d] = g, ![t][s] = MovedFrom(g)]
                /\ replacer' = SetEvictable(replacer, g.frame, FALSE)
                /\ Return(t, "move", TRUE, 0)
                /\ arg' = [arg EXCEPT ![t] = NoArg]
                /\ UNCHANGED aborted
        /\ UNCHANGED <<num_frames, next_page_id, bpm_latch, page_table,
                       free_frames, frames, disk, last_written>>

\* Guard d is move-constructed or move-assigned from guard s of the same
\* thread.  With this == &that the move returns at once.  Otherwise Drop()
\* of d comes first: it returns at once when d holds no guard.
MoveBegin(t, d, s) ==
    /\ pc[t] = "idle"
    /\ IF d = s
       THEN /\ Return(t, "move", FALSE, 0)
            /\ UNCHANGED <<poolvars, bpm_latch, guards, arg, last_written, aborted>>
       ELSE IF guards[t][d].valid
       THEN /\ pc' = [pc EXCEPT ![t] = "d_dec"]
            /\ arg' = [arg EXCEPT ![t] =
                          [NoArg EXCEPT !.op = "move", !.dst = d, !.src = s]]
            /\ UNCHANGED <<poolvars, bpm_latch, guards, ret, last_written, aborted>>
       ELSE MoveFields(t, d, s)

\* The move goes on after the Drop() of a destination that held a guard.
MoveTransfer(t) ==
    /\ pc[t] = "m_xfer"
    /\ MoveFields(t, arg[t].dst, arg[t].src)

\* The holder of a valid WritePageGuard stores bytes b through GetDataMut().
WriteData(t, s, b) ==
    /\ pc[t] = "idle"
    /\ guards[t][s].valid
    /\ guards[t][s].kind = "w"
    /\ frames' = [frames EXCEPT ![guards[t][s].frame].data = b]
    /\ last_written' = [last_written EXCEPT ![guards[t][s].page] = b]
    /\ UNCHANGED <<num_frames, next_page_id, bpm_latch, page_table, free_frames,
                   replacer, disk, guards, pc, arg, ret, aborted>>

(***************************************************************************)
(* The program: threads take steps until the process is terminated (every  *)
(* thread is then parked at "aborted").                                     *)
(***************************************************************************)
Next ==
    \/ \E t \in Threads, op \in LockedOps, p \in Pages, k \in {"r", "w"} :
          /\ op # "fetch" => k = "r"
          /\ op \in {"new_page", "flush_all_pages"} => p = 0
          /\ Call(t, op, p, k)
    \/ \E t \in Threads : Lock(t)
    \/ \E t \in Threads : Resume(t)
    \/ \E t \in Threads : NewPage(t)
    \/ \E t \in Threads : GetPinCount(t)
    \/ \E t \in Threads : DeletePage(t)
    \/ \E t \in Threads : FlushAllPages(t)
    \/ \E t \in Threads, p \in Pages : FlushPageCall(t, p)
    \/ \E t \in Threads : FlushPageReturn(t)
    \/ \E t \in Threads : FetchLookup(t)
    \/ \E t \in Threads : FetchPin(t)
    \/ \E t \in Threads : FetchRecord(t)
    \/ \E t \in Threads : FetchSetEvictable(t)
    \/ \E t \in Threads : GuardCtorDirty(t)
    \/ \E t \in Threads : GuardCtorLock(t)
    \/ \E t \in Threads, s \in Slots : FetchReturn(t, s)
    \/ \E t \in Threads, s \in Slots : DropBegin(t, s)
    \/ \E t \in Threads : DropDec(t)
    \/ \E t \in Threads : DropLoad(t)
    \/ \E t \in Threads : DropSetEvictable(t)
    \/ \E t \in Threads : DropUnlock(t)
    \/ \E t \in Threads, d \in Slots, s \in Slots : MoveBegin(t, d, s)
    \/ \E t \in Threads : MoveTransfer(t)
    \/ \E t \in Threads, s \in Slots, b \in Data : WriteData(t, s, b)

Spec == Init /\ [][Next]_vars


(***************************************************************************)
(* Vocabulary of the properties.                                           *)
(***************************************************************************)
FetchPcs == {"fetch", "f_pin", "f_rec", "f_sev", "f_dirty", "f_rwlock", "f_ret"}

\* Where a thread is between locking the pool latch and returning.
LatchedPcs == FetchPcs \cup {"new_page", "delete_page", "get_pin_count",
                             "flush_all_pages"}

DropPcs == {"d_dec", "d_load", "d_sev", "d_unlock"}

GuardIds == Threads \X Slots

\* Guard s of thread t is valid and its Drop() has not begun.
Held(t, s) ==
    /\ guards[t][s].valid
    /\ ~(pc[t] \in DropPcs /\ arg[t].dst = s)

\* Guard s of thread t is valid and its Drop() has not yet decremented the
\* pin count.
Pinning(t, s) ==
    /\ guards[t][s].valid
    /\ ~(pc[t] \in {"d_load", "d_sev", "d_unlock"} /\ arg[t].dst = s)

\* Thread t has constructed the guard its fetch is about to return.
Returning(t) == pc[t] = "f_ret"

Resident(p) == page_table[p] # NoFrame

CalledFetch(t) == pc[t] = "lock" /\ arg[t].op = "fetch"

\* Thread t waits for the pool latch and the latch's owner is not inside a
\* pool call: no step of any thread unlocks the latch, t waits for ever.
Stuck(t) ==
    /\ pc[t] = "lock"
    /\ bpm_latch # NoThread
    /\ pc[bpm_latch] \notin LatchedPcs

(***************************************************************************)
(* C1.  While a valid guard on page p exists, p stays in the page table,   *)
(* mapped to the guard's frame and to no other page's frame; the frame is  *)
(* not handed to another page (by Evict or from the free list) and still   *)
(* records page p.                                                         *)
(***************************************************************************)
FrameKeepsPage(p, f) ==
    /\ page_table[p] = f
    /\ \A q \in Pages : q # p => page_table[q] # f
    /\ frames[f].page_id = p
    /\ \A i \in 1 .. Len(free_frames) : free_frames[i] # f

C1_GuardKeepsFrame ==
    /\ \A id \in GuardIds :
          Held(id[1], id[2]) =>
             FrameKeepsPage(guards[id[1]][id[2]].page, guards[id[1]][id[2]].frame)
    /\ \A t \in Threads :
          Returning(t) => FrameKeepsPage(arg[t].page, arg[t].frame)

\* A guard is held while another thread has called DeletePage on its page.
C1_Witness ==
    \E id \in GuardIds, u \in Threads :
       /\ Held(id[1], id[2])
       /\ u # id[1]
       /\ pc[u] = "lock"
       /\ arg[u].op = "delete_page"
       /\ arg[u].page = guards[id[1]][id[2]].page

(***************************************************************************)
(* C2.  A frame whose pin_count is greater than 0 is not evictable in the  *)
(* replacer, except while a fetch that has incremented the pin count of    *)
(* that frame has not yet called SetEvictable(frame, false).               *)
(***************************************************************************)
BeingPinned(f) ==
    \E t \in Threads : pc[t] \in {"f_rec", "f_sev"} /\ arg[t].frame = f

C2_PinnedNotEvictable ==
    \A f \in Frames :
       frames[f].pin_count > 0 => ~replacer.store[f].ev \/ BeingPinned(f)

\* A thread drops the last guard on a page (pin count still 1) while another
\* thread has called a fetch of the same page.
C2_Witness ==
    \E id \in GuardIds, u \in Threads :
       LET g == guards[id[1]][id[2]]
       IN  /\ g.valid
           /\ pc[id[1]] = "d_dec"
           /\ arg[id[1]].dst = id[2]
           /\ frames[g.frame].pin_count = 1
           /\ Tracked(replacer, g.frame)
           /\ ~replacer.store[g.frame].ev
           /\ u # id[1]
           /\ CalledFetch(u)
           /\ arg[u].page = g.page

(***************************************************************************)
(* C3.  On no frame do two valid WritePageGuards, or a valid               *)
(* WritePageGuard and a valid ReadPageGuard, exist together (a guard a     *)
(* fetch has constructed and not yet returned counts).                     *)
(***************************************************************************)
GuardsOn(f, k) ==
    Cardinality({id \in GuardIds :
                    /\ guards[id[1]][id[2]].valid
                    /\ guards[id[1]][id[2]].frame = f
                    /\ guards[id[1]][id[2]].kind = k})
    + Cardinality({t \in Threads :
                    Returning(t) /\ arg[t].frame = f /\ arg[t].kind = k})

C3_WriteGuardExclusive ==
    \A f \in Frames :
       /\ GuardsOn(f, "w") <= 1
       /\ GuardsOn(f, "w") = 1 => GuardsOn(f, "r") = 0

\* A WritePageGuard is held while another thread has called a fetch of the
\* same page.
C3_Witness ==
    \E id \in GuardIds, u \in Threads :
       /\ Held(id[1], id[2])
       /\ guards[id[1]][id[2]].kind = "w"
       /\ u # id[1]
       /\ CalledFetch(u)
       /\ arg[u].page = guards[id[1]][id[2]].page

(***************************************************************************)
(* C4.  A fetch that returns a guard does not leave the pool latch held:   *)
(* a thread that is not inside a pool call does not own the latch, so a    *)
(* later pool operation of any thread can lock it.                         *)
(***************************************************************************)
C4_LatchFreeAfterFetch ==
    \A t \in Threads :
       /\ pc[t] \notin LatchedPcs => bpm_latch # t
       /\ ~Stuck(t)

(***************************************************************************)
(* C5.  A fetch returns none only if the page is not resident, the free    *)
(* list is empty and no frame is evictable; a fetch called when the page   *)
(* is resident, or a free frame exists, or a frame is evictable, goes on   *)
(* to return a guard: it does not wait for ever.                           *)
(***************************************************************************)
FrameAvailable(p) ==
    \/ Resident(p)
    \/ free_frames # <<>>
    \/ \E f \in Frames : replacer.store[f].ev

C5_NoneIffNoFrame ==
    \A t \in Threads :
       /\ (pc[t] = "done" /\ ret[t].op = "fetch" /\ ret[t].val = "none")
             => ~FrameAvailable(arg[t].page)
       /\ (CalledFetch(t) /\ FrameAvailable(arg[t].page)) => ~Stuck(t)

(***************************************************************************)
(* C6.  A fetch that returns none leaves the pool as it was when the call  *)
(* locked the latch: page table, free list, frames, replacer and disk are  *)
(* unchanged, no disk request was scheduled, and the latch is free again.  *)
(***************************************************************************)
ReturnsNone(t) ==
    /\ pc[t] = "fetch"
    /\ pc'[t] = "done"
    /\ ret'[t].val = "none"

C6_NoneChangesNothing ==
    [][\A t \in Threads :
          ReturnsNone(t) =>
             /\ UNCHANGED poolvars
             /\ ret'[t].io = 0
             /\ bpm_latch' = NoThread]_vars

C6_Witness ==
    \E t \in Threads :
       pc[t] = "done" /\ ret[t].op = "fetch" /\ ret[t].val = "none"

(***************************************************************************)
(* C7.  Write-then-read round trip: after bytes B were written to page p   *)
(* through a WritePageGuard and the guard was dropped, later fetches (of   *)
(* other pages, to evict p, and of p again) return, and a guard on p       *)
(* shows the bytes last written to p.                                      *)
(***************************************************************************)
WrittenAndDropped(p) ==
    /\ last_written[p] # 0
    /\ \A id \in GuardIds :
          ~(guards[id[1]][id[2]].valid /\ guards[id[1]][id[2]].page = p)

C7_RoundTrip ==
    /\ \A t \in Threads :
          (CalledFetch(t) /\ \E p \in Pages : WrittenAndDropped(p)) => ~Stuck(t)
    /\ \A id \in GuardIds :
          Held(id[1], id[2]) =>
             frames[guards[id[1]][id[2]].frame].data
                = last_written[guards[id[1]][id[2]].page]

(***************************************************************************)
(* C8.  Whenever no fetch and no DeletePage is in progress, the number of  *)
(* page-table entries plus the length of the free list is num_frames.      *)
(***************************************************************************)
NoFetchOrDelete == \A t \in Threads : pc[t] \notin FetchPcs \cup {"delete_page"}

C8_TablePlusFreeIsN ==
    NoFetchOrDelete =>
       Cardinality({p \in Pages : Resident(p)}) + Len(free_frames) = num_frames

\* A page is resident, a frame is still free, and nothing is in progress.
C8_Witness ==
    /\ NoFetchOrDelete
    /\ \E p \in Pages : Resident(p)
    /\ free_frames # <<>>

(***************************************************************************)
(* C9.  For every frame, pin_count is at least the number of valid guards  *)
(* outstanding on it: the guards returned or about to be returned whose    *)
(* Drop() has not yet decremented the count.                               *)
(***************************************************************************)
Outstanding(f) ==
    Cardinality({id \in GuardIds :
                    Pinning(id[1], id[2]) /\ guards[id[1]][id[2]].frame = f})
    + Cardinality({t \in Threads : Returning(t) /\ arg[t].frame = f})

C9_PinCountCoversGuards ==
    \A f \in Frames :
       /\ frames[f].pin_count >= Outstanding(f)
       /\ frames[f].pin_count < SizeMax

\* A guard is outstanding on a frame whose pin count is exactly 1.
C9_Witness ==
    \E f \in Frames : Outstanding(f) = 1 /\ frames[f].pin_count = 1

(***************************************************************************)
(* C10.  GetPinCount(p) returns none iff p is not in the page table, and   *)
(* for a resident p, called while no fetch or drop on p is in progress, it *)
(* returns the number of valid guards on p: the call does not wait for     *)
(* ever, and the value it returns is that number.                          *)
(***************************************************************************)
QuietOn(p) ==
    /\ \A t \in Threads : pc[t] \in FetchPcs => arg[t].page # p
    /\ \A t \in Threads :
          pc[t] \in DropPcs => guards[t][arg[t].dst].page # p

C10_PinCountReturned ==
    \A t \in Threads :
       /\ (pc[t] = "lock" /\ arg[t].op = "get_pin_count"
             /\ Resident(arg[t].page) /\ QuietOn(arg[t].page)) => ~Stuck(t)
       /\ (pc[t] = "get_pin_count" /\ Resident(arg[t].page)
             /\ QuietOn(arg[t].page))
             => frames[page_table[arg[t].page]].pin_count
                   = Outstanding(page_table[arg[t].page])

(***************************************************************************)
(* C11.  DeletePage(p) on a resident page whose pin_count is greater than  *)
(* 0 returns false and changes nothing: the call does not wait for ever,   *)
(* and the step that returns leaves the pool as it was.                    *)
(***************************************************************************)
CalledDelete(t) == pc[t] = "lock" /\ arg[t].op = "delete_page"

PinOf(p) == frames[page_table[p]].pin_count

C11_DeletePinnedRefused ==
    \A t \in Threads :
       /\ (CalledDelete(t) /\ Resident(arg[t].page) /\ PinOf(arg[t].page) > 0)
             => ~Stuck(t)
       /\ (pc[t] = "done" /\ ret[t].op = "delete_page" /\ ret[t].val = FALSE)
             => Resident(arg[t].page)

(***************************************************************************)
(* C12.  DeletePage(p) on a resident page whose pin_count is 0 returns     *)
(* true: the call does not wait for ever, and a page whose DeletePage has  *)
(* been called with pin_count 0 and no guard on it does not stay resident  *)
(* with the caller waiting.                                                *)
(***************************************************************************)
C12_DeleteUnpinned ==
    \A t \in Threads :
       (CalledDelete(t) /\ Resident(arg[t].page) /\ PinOf(arg[t].page) = 0)
          => ~Stuck(t)

(***************************************************************************)
(* C13.  NewPage returns the ids 0, 1, 2, ... in increasing order, none    *)
(* twice: the call that returns is handed the counter's value, the counter *)
(* goes up by one and never goes down; and NewPage leaves page table, free *)
(* list, replacer, frames and disk as they are.                            *)
(***************************************************************************)
NewPageReturns(t) == pc[t] = "new_page" /\ pc'[t] = "done"

C13_NewPageMonotonic ==
    [][/\ next_page_id' >= next_page_id
       /\ \A t \in Threads :
             NewPageReturns(t) =>
                /\ ret'[t].val = next_page_id
                /\ next_page_id' = next_page_id + 1
                /\ UNCHANGED <<page_table, free_frames, replacer, frames, disk>>
       /\ (next_page_id' # next_page_id) => \E t \in Threads : NewPageReturns(t)]_vars

\* Two concurrent callers have been handed the ids 0 and 1.
C13_Witness ==
    \E t \in Threads, u \in Threads :
       /\ t # u
       /\ pc[t] = "done" /\ ret[t].op = "new_page" /\ ret[t].val = 0
       /\ pc[u] = "done" /\ ret[u].op = "new_page" /\ ret[u].val = 1

(***************************************************************************)
(* C14.  FlushPage(p) returns false exactly when it found p not resident,  *)
(* and then writes nothing; on a resident p it returns true, writes the    *)
(* frame's bytes if the frame is dirty and nothing if it is clean, and     *)
(* when the call returns after a write the bytes of p on disk equal the    *)
(* frame's bytes; frames and page table are unchanged by the call.         *)
(***************************************************************************)
FlushWorks(t) == pc[t] = "idle" /\ pc'[t] = "fl_ret"

FlushReturns(t) == pc[t] = "fl_ret" /\ pc'[t] = "done"

C14_FlushPage ==
    [][\A t \in Threads :
          /\ FlushWorks(t) =>
                /\ UNCHANGED <<frames, page_table>>
                /\ arg'[t].io = 1 <=>
                      (Resident(arg'[t].page)
                          /\ frames[page_table[arg'[t].page]].is_dirty)
                /\ arg'[t].io = 0 => UNCHANGED disk
          /\ FlushReturns(t) =>
                /\ UNCHANGED <<frames, page_table, disk>>
                /\ ret'[t].val = (arg[t].frame # NoFrame)
                /\ ret'[t].io = 1 =>
                      disk[arg[t].page] = frames[page_table[arg[t].page]].data]_vars

(***************************************************************************)
(* C15.  FlushAllPages returns, and when it returns every page that was    *)
(* resident and dirty when it was called is on disk with the frame's       *)
(* bytes: a FlushAllPages called while a resident dirty frame exists does  *)
(* not wait for ever.                                                      *)
(***************************************************************************)
ResidentDirty(p) == Resident(p) /\ frames[page_table[p]].is_dirty

C15_FlushAllPages ==
    \A t \in Threads :
       (pc[t] = "lock" /\ arg[t].op = "flush_all_pages"
          /\ \E p \in Pages : ResidentDirty(p)) => ~Stuck(t)

(***************************************************************************)
(* C16.  Drop() of a valid guard decrements the frame's pin_count by       *)
(* exactly one, releases the lock the guard held (shared for a             *)
(* ReadPageGuard, exclusive for a WritePageGuard) and no other, and when   *)
(* it is done the frame is evictable in the replacer iff its pin_count is  *)
(* zero.                                                                   *)
(***************************************************************************)
DropGuard(t) == guards[t][arg[t].dst]

DropDecrements(t) == pc[t] = "d_dec" /\ pc'[t] = "d_load"

DropGoesOn(t) == pc[t] \in {"d_load", "d_sev"} /\ pc'[t] \in {"d_sev", "d_unlock"}

DropEnds(t) == pc[t] = "d_unlock" /\ pc'[t] \in {"idle", "m_xfer"}

C16_DropReleasesOnce ==
    [][\A t \in Threads :
          /\ DropDecrements(t) =>
                /\ frames[DropGuard(t).frame].pin_count > 0
                /\ frames'[DropGuard(t).frame].pin_count
                      = frames[DropGuard(t).frame].pin_count - 1
                /\ frames'[DropGuard(t).frame].readers
                      = frames[DropGuard(t).frame].readers
                /\ frames'[DropGuard(t).frame].writer
                      = frames[DropGuard(t).frame].writer
          /\ DropGoesOn(t) => UNCHANGED frames
          /\ DropEnds(t) =>
                LET f == DropGuard(t).frame
                IN  /\ frames'[f].pin_count = frames[f].pin_count
                    /\ IF DropGuard(t).kind = "w"
                       THEN /\ frames[f].writer /\ ~frames'[f].writer
                            /\ frames'[f].readers = frames[f].readers
                       ELSE /\ frames[f].readers > 0
                            /\ frames'[f].readers = frames[f].readers - 1
                            /\ frames'[f].writer = frames[f].writer
                    /\ replacer'.store[f].ev <=> (frames'[f].pin_count = 0)
                    /\ ~guards'[t][arg[t].dst].valid]_vars

\* A WritePageGuard has been dropped: its thread holds no guard any more, the
\* frame it wrote is unpinned, unlocked and evictable.
C16_Witness ==
    \E t \in Threads, f \in Frames :
       /\ pc[t] = "idle"
       /\ bpm_latch = t
       /\ \A s \in Slots : ~guards[t][s].valid
       /\ frames[f].is_dirty
       /\ frames[f].pin_count = 0
       /\ ~frames[f].writer /\ frames[f].readers = 0
       /\ Tracked(replacer, f) /\ replacer.store[f].ev

(***************************************************************************)
(* C17.  Drop() on a guard that is not valid (dropped before, moved from,  *)
(* or never given a frame) changes no pin_count, lock, evictable flag or   *)
(* other pool state, and ends no process; a Drop() that has run leaves the *)
(* guard not valid, so dropping twice is dropping once.                    *)
(***************************************************************************)
C17_DropIdempotent ==
    [][/\ \A t \in Threads, s \in Slots :
             (~guards[t][s].valid /\ DropBegin(t, s)) =>
                UNCHANGED <<poolvars, bpm_latch, guards, last_written, aborted>>
       /\ \A t \in Threads :
             DropEnds(t) => guards'[t][arg[t].dst] = NoGuard]_vars

\* The second Drop(): a thread whose guard was dropped (the frame is
\* evictable again) has called Drop() on a guard that is not valid.
C17_Witness ==
    \E t \in Threads, f \in Frames :
       /\ pc[t] = "done" /\ ret[t].op = "drop"
       /\ bpm_latch = t
       /\ \A s \in Slots : ~guards[t][s].valid
       /\ Tracked(replacer, f) /\ replacer.store[f].ev

(***************************************************************************)
(* C18.  Moving a valid guard into a guard that is not valid leaves the    *)
(* frame's pin_count, lock state and dirty flag and the replacer as they   *)
(* are; afterwards the destination is the guard the source was and the     *)
(* source is not valid and holds no frame.                                 *)
(***************************************************************************)
MovesValid(t, d, s) ==
    /\ d # s
    /\ guards[t][s].valid
    /\ ~guards[t][d].valid
    /\ MoveBegin(t, d, s)

C18_MoveKeepsLease ==
    [][\A t \in Threads, d \in Slots, s \in Slots :
          MovesValid(t, d, s) =>
             /\ UNCHANGED <<frames, replacer, page_table, free_frames, disk,
                            bpm_latch, aborted>>
             /\ guards'[t][d] = guards[t][s]
             /\ ~guards'[t][s].valid
             /\ guards'[t][s].frame = NoFrame]_vars

\* A move has returned and its thread holds one valid guard.
C18_Witness ==
    \E t \in Threads :
       /\ pc[t] = "done" /\ ret[t].op = "move" /\ ret[t].val = TRUE
       /\ Cardinality({s \in Slots : guards[t][s].valid}) = 1

WriteCtorOn(f) ==
    \E t \in Threads :
       /\ pc[t] = "f_dirty" /\ pc'[t] = "f_rwlock"
       /\ arg[t].kind = "w" /\ arg[t].frame = f

MaxK == 3
\* RecordAccess is called at most MaxTs times without an exception.
MaxTs == 5

\* The replacer is built for one or two frames; the frame ids handed to it
\* are the valid ones and the two ids just past them.
ReplacerSizes == {1, 2}
FrameIds == 0 .. 3

\* The one thread that calls the replacer.
Caller == SetMin(Threads)

LRUKReplacer(n, k) ==
    [store  |-> [f \in FrameIds |-> NoNode],
     newl   |-> <<>>,
     cachel |-> <<>>,
     size   |-> 0,
     ts     |-> 0,
     replacer_size |-> n,
     k      |-> k]

InList(s, f) == \E i \in 1 .. Len(s) : s[i] = f

\* cache_frames_.erase(cache_frames_locator_[frame_id]) for a frame that is
\* not in cache_frames_: operator[] makes a value-initialised iterator and
\* erasing through it is undefined.  It happens when history_.size() == k_
\* for a frame of new_frames_, that is when k_ is 1.
RecordAccessUndefined(R, f) ==
    /\ Tracked(R, f)
    /\ Len(R.store[f].hist) = R.k
    /\ ~InList(R.cachel, f)

RemoveUndefined(R, f) ==
    /\ Tracked(R, f)
    /\ R.store[f].ev
    /\ Len(R.store[f].hist) >= R.k
    /\ ~InList(R.cachel, f)

\* What an undefined erase may leave behind when RecordAccess goes on: the
\* replacer as it was, or the call completed around an erase that removed
\* nothing.
RecordAccessOutcomes(R, f) ==
    LET h2 == SubSeq(<<R.ts>> \o R.store[f].hist, 1, R.k)
        R1 == [R EXCEPT !.store[f].hist = h2]
    IN  {R,
         [R1 EXCEPT !.cachel = ListInsert(R.cachel,
                          CacheWalk(R1, R.cachel, Len(R.cachel) + 1, h2[Len(h2)]), f),
                    !.ts = R.ts + 1]}

RemoveOutcomes(R, f) ==
    {R, [R EXCEPT !.size = R.size - 1, !.store[f] = NoNode]}

RInit ==
    /\ num_frames \in ReplacerSizes
    /\ \E k \in 1 .. MaxK : replacer = LRUKReplacer(num_frames, k)
    /\ next_page_id = 0
    /\ bpm_latch = NoThread
    /\ page_table = [p \in Pages |-> NoFrame]
    /\ free_frames = <<>>
    /\ frames = [f \in AllFrames |-> FrameInit]
    /\ disk = [p \in Pages |-> 0]
    /\ guards = [t \in Threads |-> [s \in Slots |-> NoGuard]]
    /\ pc = [t \in Threads |-> "idle"]
    /\ arg = [t \in Threads |-> NoArg]
    /\ ret = [t \in Threads |-> NoRet]
    /\ last_written = [p \in Pages |-> 0]
    /\ aborted = FALSE

\* What stays as it is when the replacer is called on its own.
restvars == <<num_frames, next_page_id, bpm_latch, page_table, free_frames,
              frames, disk, guards, pc, arg, last_written>>

\* ret[Caller] after a call: the member function, and the value it
\* returned (Evict, Size) or the frame id it was given (RecordAccess,
\* Remove).  A call that threw leaves "... throws" and the frame id, one
\* that ran into undefined behaviour "... undefined".
Returned(op, val) ==
    /\ ret' = [ret EXCEPT ![Caller] = [op |-> op, val |-> val, io |-> 0]]

Threw(op, f) ==
    /\ ret' = [ret EXCEPT ![Caller] = [op |-> op, val |-> f, io |-> 0]]

CallRecordAccess(f) ==
    /\ ~aborted
    /\ replacer.ts < MaxTs
    /\ IF RecordAccessThrows(replacer.replacer_size, f)
       THEN /\ Threw("record_access throws", f)
            /\ UNCHANGED <<replacer, aborted>>
       ELSE IF RecordAccessUndefined(replacer, f)
       THEN /\ replacer' \in RecordAccessOutcomes(replacer, f)
            /\ aborted' = TRUE
            /\ Threw("record_access undefined", f)
       ELSE /\ replacer' = RecordAccess(replacer, replacer.k, f)
            /\ Returned("record_access", f)
            /\ UNCHANGED aborted
    /\ UNCHANGED restvars

CallSetEvictable(f, b) ==
    /\ ~aborted
    /\ replacer' = SetEvictable(replacer, f, b)
    /\ Returned("set_evictable", 0)
    /\ UNCHANGED <<aborted, restvars>>

CallEvict ==
    /\ ~aborted
    /\ replacer' = Evict(replacer)[1]
    /\ Returned("evict", Evict(replacer)[2])
    /\ UNCHANGED <<aborted, restvars>>

CallRemove(f) ==
    /\ ~aborted
    /\ IF RemoveThrows(replacer, f)
       THEN /\ Threw("remove throws", f)
            /\ UNCHANGED <<replacer, aborted>>
       ELSE IF RemoveUndefined(replacer, f)
       THEN /\ replacer' \in RemoveOutcomes(replacer, f)
            /\ aborted' = TRUE
            /\ Threw("remove undefined", f)
       ELSE /\ replacer' = Remove(replacer, replacer.k, f)
            /\ Returned("remove", f)
            /\ UNCHANGED aborted
    /\ UNCHANGED restvars

CallSize ==
    /\ ~aborted
    /\ Returned("size", replacer.size)
    /\ UNCHANGED <<replacer, aborted, restvars>>

RNext ==
    \/ \E f \in FrameIds : CallRecordAccess(f)
    \/ \E f \in FrameIds, b \in BOOLEAN : CallSetEvictable(f, b)
    \/ CallEvict
    \/ \E f \in FrameIds : CallRemove(f)
    \/ CallSize

ReplacerSpec == RInit /\ [][RNext]_vars

(***************************************************************************)
(* Claims about the replacer on its own.                                   *)
(***************************************************************************)
EvictReturned == ret[Caller].op = "evict"

\* The evictable frames with fewer than k_ recorded accesses, and those
\* with k_ of them.
EvictableBelowK(R) ==
    {f \in FrameIds : Tracked(R, f) /\ R.store[f].ev /\ Len(R.store[f].hist) < R.k}

EvictableAtK(R) ==
    {f \in FrameIds : Tracked(R, f) /\ R.store[f].ev /\ Len(R.store[f].hist) = R.k}

\* The frame of S whose oldest kept access is the oldest.
OldestBack(R, S) ==
    CHOOSE f \in S : \A g \in S : HistBack(R, f) <= HistBack(R, g)

\* C21: with K >= 2, when some evictable frame has fewer than K recorded
\* accesses, Evict returns the one of those frames whose first access is
\* the oldest, whatever further accesses the frames received and whatever
\* evictable frames have K accesses.
C21_EvictOldestArrival ==
    [][(EvictReturned' /\ replacer.k >= 2 /\ EvictableBelowK(replacer) # {})
         => ret'[Caller].val = OldestBack(replacer, EvictableBelowK(replacer))]_vars

\* Evict returned a frame that was accessed at 0 and at 2, while the frame
\* first accessed at 1 stays evictable (K = 3).
C21_Witness ==
    \E f \in FrameIds, g \in FrameIds :
       /\ EvictReturned
       /\ ret[Caller].val = f
       /\ ~Tracked(replacer, f)
       /\ replacer.k = 3
       /\ replacer.ts = 3
       /\ replacer.store[g].hist = <<1>>
       /\ replacer.store[g].ev

\* C22: when no evictable frame has fewer than K recorded accesses, Evict
\* returns the evictable frame whose K-th most recent access is the oldest
\* of the evictable frames with K accesses.
C22_EvictOldestKth ==
    [][(EvictReturned' /\ EvictableBelowK(replacer) = {}
                       /\ EvictableAtK(replacer) # {})
         => ret'[Caller].val = OldestBack(replacer, EvictableAtK(replacer))]_vars

\* cache_frames_ is ordered by the K-th most recent access, newest at the
\* front.
CacheOrdered ==
    \A i \in 1 .. Len(replacer.cachel), j \in 1 .. Len(replacer.cachel) :
       i < j => HistBack(replacer, replacer.cachel[i])
                   > HistBack(replacer, replacer.cachel[j])

NoDuplicates(s) == \A i \in 1 .. Len(s), j \in 1 .. Len(s) : s[i] = s[j] => i = j

\* The two lists hold the tracked frames, each once and in one list: in
\* new_frames_ with fewer than k_ accesses, in cache_frames_ with k_.
ListsPartition(R) ==
    /\ NoDuplicates(R.newl)
    /\ NoDuplicates(R.cachel)
    /\ \A f \in FrameIds :
          /\ InList(R.newl, f) <=> (Tracked(R, f) /\ Len(R.store[f].hist) < R.k)
          /\ InList(R.cachel, f) <=> (Tracked(R, f) /\ Len(R.store[f].hist) = R.k)
          /\ Tracked(R, f) => (InList(R.newl, f) # InList(R.cachel, f))

\* C23: for every K >= 1, every tracked frame is in exactly one of the two
\* lists, in the New list iff it has fewer than K recorded accesses and in
\* the Cache list iff it has K; the lists hold no duplicate and no
\* untracked frame.
C23_ListsPartition == ListsPartition(replacer)

\* The same for K >= 2 only.
ListsPartitionFromTwo == replacer.k >= 2 => ListsPartition(replacer)

EvictableCount(R) == Cardinality({f \in FrameIds : Tracked(R, f) /\ R.store[f].ev})

\* A step in which RecordAccess created the node of frame f.
Created(f) == ~Tracked(replacer, f) /\ Tracked(replacer', f)

\* C24: curr_size_, which Size returns, is the number of tracked frames
\* whose is_evictable_ is true, after any calls including failed ones; a
\* frame RecordAccess creates is not evictable and leaves Size as it was.
C24_SizeCountsEvictable ==
    /\ [](replacer.size = EvictableCount(replacer))
    /\ [][\A f \in FrameIds :
            Created(f) => /\ ~replacer'.store[f].ev
                          /\ replacer'.size = replacer.size]_vars

\* Size returned 1 with two frames tracked, one of them not evictable.
C24_Witness ==
    /\ ret[Caller].op = "size"
    /\ ret[Caller].val = 1
    /\ \E f \in FrameIds, g \in FrameIds :
          /\ Tracked(replacer, f) /\ replacer.store[f].ev
          /\ Tracked(replacer, g) /\ ~replacer.store[g].ev

\* What Evict must leave of the replacer R when it returns frame f.
EvictedFrom(R, f) ==
    [R EXCEPT !.store[f] = NoNode,
              !.newl = ListErase(R.newl, f),
              !.cachel = ListErase(R.cachel, f),
              !.size = R.size - 1]

\* C25: Evict returns none iff Size is 0 and then changes nothing;
\* otherwise it returns a frame that was evictable, erases its node, its
\* place in the lists and its history, and takes one off Size; a later
\* RecordAccess of the frame starts it as a new frame with one access.
C25_EvictRemovesNode ==
    /\ [][EvictReturned' =>
            LET f == ret'[Caller].val
            IN  /\ (f = NoFrame) <=> (replacer.size = 0)
                /\ f = NoFrame => replacer' = replacer
                /\ f # NoFrame =>
                     /\ Tracked(replacer, f)
                     /\ replacer.store[f].ev
                     /\ replacer' = EvictedFrom(replacer, f)
                     /\ ~Tracked(replacer', f)
                     /\ ~InList(replacer'.newl, f)
                     /\ ~InList(replacer'.cachel, f)
                     /\ replacer'.size = replacer.size - 1]_vars
    /\ [][\A f \in FrameIds :
            Created(f) => /\ replacer'.store[f].hist = <<replacer.ts>>
                          /\ replacer'.newl = <<f>> \o replacer.newl
                          /\ replacer'.cachel = replacer.cachel]_vars

\* Evict returned the one tracked frame, which had K = 2 accesses and was
\* in cache_frames_: nothing is tracked any more and Size is 0.
C25_Witness ==
    \E f \in FrameIds :
       /\ EvictReturned
       /\ ret[Caller].val = f
       /\ replacer.k = 2
       /\ replacer.ts = 2
       /\ replacer.size = 0
       /\ replacer.newl = <<>>
       /\ replacer.cachel = <<>>
       /\ \A g \in FrameIds : ~Tracked(replacer, g)

\* Remove was called with frame f and returned, or threw.
RemoveReturned(f) == ret[Caller] = [op |-> "remove", val |-> f, io |-> 0]
RemoveThrew(f) == ret[Caller] = [op |-> "remove throws", val |-> f, io |-> 0]
RemoveCalled(f) ==
    \/ RemoveReturned(f)
    \/ RemoveThrew(f)
    \/ ret[Caller] = [op |-> "remove undefined", val |-> f, io |-> 0]

\* What Remove(f) has to do, from the replacer before the call.
RemoveAsClaimed(f) ==
    IF ~Tracked(replacer, f)
    THEN RemoveReturned(f)' /\ replacer' = replacer
    ELSE IF ~replacer.store[f].ev
    THEN RemoveThrew(f)' /\ replacer' = replacer
    ELSE RemoveReturned(f)' /\ replacer' = EvictedFrom(replacer, f)

\* C26: Remove(f) of a tracked frame that is not evictable reports an
\* error and changes nothing; of an untracked frame it does nothing; of a
\* tracked evictable frame, with 1..K recorded accesses, it takes the frame
\* off the list it is in, forgets its history and takes one off Size.
C26_Remove ==
    [][\A f \in FrameIds :
         RemoveCalled(f)' => RemoveAsClaimed(f)]_vars

\* The same with K >= 2.
RemoveFromTwo ==
    [][\A f \in FrameIds :
         (RemoveCalled(f)' /\ replacer.k >= 2)
            => RemoveAsClaimed(f)]_vars

\* RecordAccess was called with frame f and returned, or threw.
RecordAccessReturned(f) ==
    ret[Caller] = [op |-> "record_access", val |-> f, io |-> 0]
RecordAccessThrew(f) ==
    ret[Caller] = [op |-> "record_access throws", val |-> f, io |-> 0]

\* C27: RecordAccess(f) with f >= N, N the number of frames the replacer
\* was built for (valid ids 0..N-1), reports an out-of-range error and
\* leaves the replacer as it was: no node, no list change, no timestamp.
C27_RecordAccessOutOfRange ==
    [][\A f \in FrameIds :
         ((RecordAccessReturned(f)' \/ RecordAccessThrew(f)')
             /\ f >= replacer.replacer_size)
            => (RecordAccessThrew(f)' /\ replacer' = replacer)]_vars

\* The same for the ids above N.
RecordAccessAboveSize ==
    [][\A f \in FrameIds :
         ((RecordAccessReturned(f)' \/ RecordAccessThrew(f)')
             /\ f > replacer.replacer_size)
            => (RecordAccessThrew(f)' /\ replacer' = replacer)]_vars

\* The first n elements of s, all of s when it is shorter.
Take(s, n) == SubSeq(s, 1, IF Len(s) < n THEN Len(s) ELSE n)

\* history_ of every tracked frame: 1..k_ timestamps, strictly decreasing
\* from the front, all below current_timestamp_, none recorded twice.
HistoriesWellFormed(R) ==
    /\ \A f \in FrameIds :
          LET h == R.store[f].hist
          IN  /\ Len(h) <= R.k
              /\ \A i \in 1 .. Len(h) : h[i] >= 0 /\ h[i] < R.ts
              /\ \A i \in 1 .. Len(h), j \in 1 .. Len(h) : i < j => h[i] > h[j]
    /\ \A f \in FrameIds, g \in FrameIds :
          \A i \in 1 .. Len(R.store[f].hist), j \in 1 .. Len(R.store[g].hist) :
             R.store[f].hist[i] = R.store[g].hist[j] => f = g

\* C28: every RecordAccess that returns advances current_timestamp_ by
\* exactly one, so no two recorded accesses share a timestamp; a tracked
\* frame's history holds 1..K timestamps, strictly decreasing from the
\* front; an access to a frame with K entries drops the oldest one.
C28_Histories ==
    /\ [] HistoriesWellFormed(replacer)
    /\ [][\A f \in FrameIds :
            RecordAccessReturned(f)' =>
               /\ replacer'.ts = replacer.ts + 1
               /\ replacer'.store[f].hist
                     = Take(<<replacer.ts>> \o replacer.store[f].hist, replacer.k)
               /\ \A g \in FrameIds \ {f} :
                     replacer'.store[g].hist = replacer.store[g].hist]_vars
    /\ [][replacer'.ts # replacer.ts
            => \E f \in FrameIds : RecordAccessReturned(f)' \/ aborted']_vars

\* A frame with K = 2 entries was accessed again: the access at 0 is
\* dropped, those at 2 and 1 are kept.
C28_Witness ==
    \E f \in FrameIds :
       /\ RecordAccessReturned(f)
       /\ replacer.k = 2
       /\ replacer.ts = 3
       /\ replacer.store[f].hist = <<2, 1>>
       /\ \A g \in FrameIds \ {f} : ~Tracked(replacer, g)

(***************************************************************************)
(* A fetch whose disk read fails.  The disk scheduler fulfils the promise  *)
(* of a request with its status; CheckedReadPage / CheckedWritePage call   *)
(* future.get() and drop the value.  One thread calls NewPage and the      *)
(* fetches, and the read of a miss may complete with an error, leaving     *)
(* the frame's bytes undefined.                                            *)
(***************************************************************************)
\* future.get() of the read returned false: the thread is between the get
\* and pin_count_++, the bytes of the frame are whatever the read left.
ReadFails(t) ==
    /\ pc[t] = "f_pin"
    /\ arg[t].io >= 1
    /\ arg[t].read_ok
    /\ arg' = [arg EXCEPT ![t].read_ok = FALSE]
    /\ \E b \in Data : frames' = [frames EXCEPT ![arg[t].frame].data = b]
    /\ UNCHANGED <<num_frames, next_page_id, bpm_latch, page_table, free_frames,
                   replacer, disk, guards, pc, ret, last_written, aborted>>

IoNext ==
    \/ \E op \in {"new_page", "fetch"}, p \in Pages, k \in {"r", "w"} :
          /\ op # "fetch" => k = "r" /\ p = 0
          /\ Call(Caller, op, p, k)
    \/ Lock(Caller)
    \/ Resume(Caller)
    \/ NewPage(Caller)
    \/ FetchLookup(Caller)
    \/ ReadFails(Caller)
    \/ FetchPin(Caller)
    \/ FetchRecord(Caller)
    \/ FetchSetEvictable(Caller)
    \/ GuardCtorDirty(Caller)
    \/ GuardCtorLock(Caller)
    \/ \E s \in Slots : FetchReturn(Caller, s)
    \/ \E s \in Slots, b \in Data : WriteData(Caller, s, b)
    \/ \E s \in Slots : DropBegin(Caller, s)
    \/ DropDec(Caller)
    \/ DropLoad(Caller)
    \/ DropSetEvictable(Caller)
    \/ DropUnlock(Caller)

IoSpec == Init /\ [][IoNext]_vars

\* C29: a fetch whose disk read completed with an error status does not
\* return a guard on the frame.
C29_ReadErrorNoGuard ==
    \A t \in Threads :
       (pc[t] = "done" /\ ret[t].op = "fetch" /\ ret[t].val = "guard")
          => arg[t].read_ok

(***************************************************************************)
(* Lock order.  A call into the replacer takes the replacer's latch_ for   *)
(* the length of the call.                                                 *)
(***************************************************************************)
\* Guard s of thread t holds its frame's rwlatch_.
HoldsFrameLock(t, s) ==
    LET g == guards[t][s]
    IN  /\ g.valid
        /\ g.frame # NoFrame
        /\ IF g.kind = "w" THEN frames[g.frame].writer
           ELSE frames[g.frame].readers > 0

\* C30: no operation takes the replacer latch while it holds a frame's
\* reader/writer lock: Drop has released the frame lock when it calls
\* SetEvictable to mark the frame evictable.
C30_LockOrder ==
    \A t \in Threads : pc[t] = "d_sev" => ~HoldsFrameLock(t, arg[t].dst)

(***************************************************************************)
(* Claims about the pool under concurrent callers.                         *)
(***************************************************************************)
NoGuardLeft == \A id \in GuardIds : ~guards[id[1]][id[2]].valid

\* C31: a fetch of page p called while another thread holds a guard on p
\* is not blocked for ever: the holder can go on, and once the guards are
\* dropped the fetch goes on and returns.
C31_WaiterGoesOn ==
    \A b \in Threads :
       (/\ CalledFetch(b)
        /\ NoGuardLeft
        /\ \A a \in Threads \ {b} : pc[a] = "idle")
          => ~Stuck(b)

\* Where a thread is inside a pool operation that reads or writes
\* page_table_ or free_frames_: the latched operations once they hold the
\* latch, and FlushPage after its lookup.
TablePcs == LatchedPcs \cup {"fl_ret"}

\* C32: a thread that reads or writes the page table or the free list
\* inside a public pool operation, FlushPage included, holds the pool
\* latch.
C32_TableUnderLatch ==
    \A t \in Threads : pc[t] \in TablePcs => bpm_latch = t

\* The same for the operations other than FlushPage.
LatchedOpsHoldLatch ==
    \A t \in Threads : pc[t] \in LatchedPcs => bpm_latch = t

\* The free list is empty and the replacer holds an evictable frame: a miss
\* has to evict.
MustEvict(p) ==
    /\ ~Resident(p)
    /\ free_frames = <<>>
    /\ \E f \in Frames : replacer.store[f].ev

\* C33: a fetch miss that has to evict a victim goes through (the dirty
\* victim written under its page id, its page-table entry erased, the
\* requested page read, the guard returned): the call does not wait for
\* ever.
C33_EvictingMiss ==
    \A t \in Threads :
       (CalledFetch(t) /\ MustEvict(arg[t].page)) => ~Stuck(t)

\* C34: a fetch of a page that is already resident goes through (no disk
\* request, page table, free list and bytes as they were, pin_count up by
\* one, one access recorded, the frame not evictable): the call does not
\* wait for ever.
C34_Hit ==
    \A t \in Threads :
       (CalledFetch(t) /\ Resident(arg[t].page)) => ~Stuck(t)

\* Thread t's fetch takes its step from the lookup to the pinning on a
\* miss with a frame on the free list.
MissWithFreeFrame(t) ==
    /\ pc[t] = "fetch"
    /\ pc'[t] = "f_pin"
    /\ ~Resident(arg[t].page)
    /\ free_frames # <<>>

\* C35: a miss with the free list non-empty uses the frame at the front
\* of the free list: Evict is not called, no other page-table entry
\* changes, and the only disk request is the read of the page.
C35_MissUsesFreeFrame ==
    [][\A t \in Threads :
         MissWithFreeFrame(t) =>
            /\ arg'[t].frame = Head(free_frames)
            /\ free_frames' = Tail(free_frames)
            /\ page_table' = [page_table EXCEPT ![arg[t].page] = Head(free_frames)]
            /\ replacer' = replacer
            /\ disk' = disk
            /\ arg'[t].io = 1
            /\ frames'[Head(free_frames)].data = disk[arg[t].page]
            /\ \A f \in AllFrames \ {Head(free_frames)} : frames'[f] = frames[f]]_vars

\* A miss has taken frame 0 from the front of the free list, frame 1 is
\* still on it.
C35_Witness ==
    \E t \in Threads :
       /\ pc[t] = "f_pin"
       /\ arg[t].frame = 0
       /\ arg[t].io = 1
       /\ page_table[arg[t].page] = 0
       /\ free_frames = <<1>>
       /\ replacer = ReplacerInit

\* C36: whenever no fetch or delete is in progress the page table is
\* injective, no frame is both on the free list and the target of a
\* page-table entry, the free list has no duplicates, and the frame of
\* every entry p -> f records page id p.  A process that was terminated in
\* the middle of a fetch has no state left to look at.
C36_TableConsistent ==
    (NoFetchOrDelete /\ ~aborted) =>
       /\ \A p \in Pages, q \in Pages :
             (Resident(p) /\ page_table[p] = page_table[q]) => p = q
       /\ \A p \in Pages : Resident(p) => ~InList(free_frames, page_table[p])
       /\ NoDuplicates(free_frames)
       /\ \A p \in Pages :
             Resident(p) => /\ page_table[p] \in Frames
                            /\ frames[page_table[p]].page_id = p

\* A page is resident in frame 0 after its guard was dropped, frame 1 is
\* on the free list.
C36_Witness ==
    /\ NoFetchOrDelete
    /\ NoGuardLeft
    /\ \E p \in Pages : page_table[p] = 0 /\ frames[0].pin_count = 0
    /\ free_frames = <<1>>

\* No call and no guard operation is in progress on any thread.
NoOperation == \A t \in Threads : pc[t] \in {"idle", "done"}

\* Frame f holds bytes that differ from what the disk holds for its page.
DiffersFromDisk(f) ==
    \E p \in Pages : page_table[p] = f /\ frames[f].data # disk[p]

\* C37: in every state where no operation is in progress, a resident page
\* whose frame is not dirty has frame bytes equal to its bytes on disk: a
\* frame whose bytes differ from disk is marked dirty.
C37_NoLostWrites ==
    NoOperation => \A f \in Frames : DiffersFromDisk(f) => frames[f].is_dirty

\* A frame holds bytes written through a WriteGuard that the disk does not
\* have yet, the guard is dropped and nothing is in progress.
C37_Witness ==
    /\ NoOperation
    /\ NoGuardLeft
    /\ \E f \in Frames : DiffersFromDisk(f) /\ frames[f].is_dirty

\* A miss loads its page into frame f in this step.
LoadedInto(f) ==
    \E t \in Threads :
       /\ pc[t] = "fetch" /\ pc'[t] = "f_pin"
       /\ arg'[t].frame = f /\ arg'[t].io >= 1

\* A WritePageGuard is constructed in this step on the page resident in f.
WriteCtorOnResident(f) ==
    \E t \in Threads :
       /\ pc[t] = "f_dirty" /\ pc'[t] = "f_rwlock"
       /\ arg[t].kind = "w" /\ arg[t].frame = f
       /\ page_table[arg[t].page] = f

\* FlushPage looks in this step at a resident page whose frame is clean.
FlushOfClean(t) ==
    /\ FlushWorks(t)
    /\ Resident(arg'[t].page)
    /\ ~frames[page_table[arg'[t].page]].is_dirty

\* The part of C38 that executions reach: a frame's dirty flag becomes true
\* only when a WriteGuard is constructed on the page resident in it; the
\* frame a miss loads a page into from the free list is clean after the
\* load, and a FlushPage of a page whose frame is clean writes nothing.
C38_DirtyOnlyByWriteGuard ==
    [][/\ \A f \in Frames :
             /\ (~frames[f].is_dirty /\ frames'[f].is_dirty) => WriteCtorOnResident(f)
             /\ LoadedInto(f) => ~frames'[f].is_dirty
       /\ \A t \in Threads :
             FlushOfClean(t) => arg'[t].io = 0 /\ disk' = disk]_vars

\* A page was loaded by a miss and read through a ReadGuard; the guard is
\* dropped, the frame is clean, and a FlushPage of the page has returned
\* true without a write.
CleanPageFlushed ==
    \E t \in Threads, f \in Frames :
       /\ pc[t] = "done" /\ ret[t].op = "flush_page"
       /\ ret[t].val = TRUE /\ ret[t].io = 0
       /\ page_table[arg[t].page] = f
       /\ frames[f].page_id = arg[t].page
       /\ ~frames[f].is_dirty
       /\ frames[f].pin_count = 0
       /\ NoGuardLeft

\* The frame the replacer can give up holds a page written through a
\* WriteGuard.
DirtyVictim ==
    \E f \in Frames : replacer.store[f].ev /\ frames[f].is_dirty

\* C38: a page loaded by a miss into an evicted frame and accessed only
\* through ReadGuards reports is_dirty = false: a fetch whose miss has to
\* evict a dirty frame loads its page, it does not wait for ever.
C38_LoadIntoEvictedFrame ==
    \A t \in Threads :
       (CalledFetch(t) /\ MustEvict(arg[t].page) /\ DirtyVictim) => ~Stuck(t)

\* Guard d of thread t takes over, in this step, the fields of a guard s
\* that is not valid: d was not valid either, or its Drop() has just run.
MovesInvalid(t, d, s) ==
    /\ d # s
    /\ ~guards[t][s].valid
    /\ \/ ~guards[t][d].valid /\ MoveBegin(t, d, s)
       \/ arg[t].dst = d /\ arg[t].src = s /\ MoveTransfer(t)

\* C39: a move construction or move assignment from a guard that is not
\* valid touches no frame and no replacer, leaves the pool as it is, leaves
\* source and destination invalid, and the program goes on.
C39_MoveFromInvalid ==
    [][\A t \in Threads, d \in Slots, s \in Slots :
          MovesInvalid(t, d, s) =>
             /\ UNCHANGED <<frames, replacer, page_table, free_frames, disk,
                            bpm_latch>>
             /\ ~guards'[t][d].valid
             /\ ~guards'[t][s].valid
             /\ ~aborted']_vars

=============================================================================
